---- MODULE Spec2Model ----
(***************************************************************************)
(* Transfer-token service of the admin server (create / list / getBy /     *)
(* update / revoke / regenerate) over the token and token-permission       *)
(* tables.  Time is counted in days, so that the lifespans fit TLC's       *)
(* integers; a token's plaintext secrets and their HMAC digests are        *)
(* strings.  The updatedAt column, which only the store maintains, is      *)
(* left out of the rows.                                                   *)
(***************************************************************************)
EXTENDS Integers, Sequences, FiniteSets, TLC

\* ------------------------------------------------------------- bounds
MaxTokens == 2      \* tokens ever inserted (ids are 1..MaxTokens, never reused)
MaxClock == 1       \* the clock runs over 0..MaxClock
MaxPermLen == 2     \* longest permissions array of a payload
MaxPending == 1     \* updates in flight between their check and their transaction

\* ---------------------------------------------------------- constants
Null == -1          \* null / undefined (isNil) among the numeric values

DAYS_7 == 7
DAYS_30 == 30
DAYS_90 == 90
TRANSFER_TOKEN_LIFESPANS == {Null, DAYS_7, DAYS_30, DAYS_90}

MinAccessKeyLength == 15

\* keys of the permission registry (providers.action.keys())
validPermissions == {"push", "pull"}

\* mutant: the secret column is selected too
SELECT_FIELDS_WithKey ==
  {"id", "name", "description", "accessKey", "lastUsedAt", "lifespan", "expiresAt",
   "createdAt", "updatedAt"}

SELECT_FIELDS ==
  {"id", "name", "description", "lastUsedAt", "lifespan", "expiresAt",
   "createdAt", "updatedAt"}

\* ------------------------------------------------------------- inputs
Actions == validPermissions \cup {"z"}
ActionOrder == <<"pull", "push", "z">>

RECURSIVE Repeat(_, _)
Repeat(s, n) == IF n = 0 THEN "" ELSE s \o Repeat(s, n - 1)

\* crypto.randomBytes(128).toString('hex'): 256 hexadecimal characters
FirstKey == Repeat("0f", 128)
RandomKeys == {FirstKey, Repeat("a7", 128)}

\* caller-supplied access keys of 14 and 15 characters
SuppliedKeys == {"fourteen-chars", "exactly-15-char"}

Range(s) == {s[i] : i \in 1..Len(s)}

\* every list of registered actions, and two with an unregistered one
PermLists ==
  UNION {[1..n -> validPermissions] : n \in 0..MaxPermLen}
    \cup {<<"z">>, <<"push", "z">>}

EmptyRec == [k \in {} |-> 0]
Opt(k, S) == {EmptyRec} \cup {k :> v : v \in S}

\* Each specification below calls the service with the payloads that vary
\* the attributes it is about.
Names == {"a", "b"}
Base == [name |-> "a", description |-> "d"]

KeyPayloads ==
  {Base @@ k : k \in Opt("accessKey", SuppliedKeys)}
    \cup {Base @@ [permissions |-> <<"z">>],
          Base @@ [lifespan |-> 5],
          Base @@ [accessKey |-> "fourteen-chars", permissions |-> <<"z">>],
          Base @@ [accessKey |-> "exactly-15-char", lifespan |-> 5]}

PermPayloads == {Base @@ p : p \in Opt("permissions", PermLists)}

LifePayloads == {Base @@ l : l \in Opt("lifespan", {Null, 0, 5, DAYS_7})}

RichPayloads ==
  {[name |-> "a", description |-> "d", lifespan |-> DAYS_7, permissions |-> <<"push">>],
   [name |-> "b", description |-> "e", lifespan |-> Null,
    permissions |-> <<"pull", "push">>]}

TokenIds == 1..MaxTokens

VARIABLES
  tokens,             \* token table: id -> row
  permissions,        \* token-permission table: <<token id, action>> -> rows
  nextId,             \* next id of the token table
  now,                \* Date.now()
  hasValidTokenSalt,  \* whether admin.transfer.token.salt is configured
  pending,            \* updates between their existence check and their transaction
  call,               \* the last call: operation and arguments
  result,             \* its outcome: status and the rows returned
  writes              \* permission rows its transaction deleted and inserted

vars ==
  <<tokens, permissions, nextId, now, hasValidTokenSalt, pending, call, result, writes>>

store == <<tokens, permissions>>

\* ------------------------------------------------------- pure helpers
isNil(v) == v = Null

hasAccessKey(attributes) == "accessKey" \in DOMAIN attributes

\* mutant: the length check is off by one
validateAccessKey_OffByOne(accessKey) ==
  IF Len(accessKey) > MinAccessKeyLength
    THEN [threw |-> "none", value |-> accessKey]
    ELSE [threw |-> "AssertionError", value |-> ""]

\* validateAccessKey: the key itself, or the assertion that fails
validateAccessKey(accessKey) ==
  IF Len(accessKey) >= MinAccessKeyLength
    THEN [threw |-> "none", value |-> accessKey]
    ELSE [threw |-> "AssertionError", value |-> ""]

\* HMAC-SHA512 keyed with the configured salt, hex encoded
hash(accessKey) == "hmac-sha512:" \o accessKey

omit(key, attributes) == [f \in DOMAIN attributes \ {key} |-> attributes[f]]

\* mutant: duplicates are kept
uniq_KeepsDuplicates(list) == list

RECURSIVE uniq(_)
uniq(list) ==
  IF list = <<>> THEN <<>>
  ELSE LET front == uniq(SubSeq(list, 1, Len(list) - 1))
           last == list[Len(list)]
       IN IF last \in Range(front) THEN front ELSE Append(front, last)

InSet(x, S) == x \in S
difference(list, values) == SelectSeq(list, LAMBDA x : ~InSet(x, Range(values)))

SetToSeq(S) == SelectSeq(ActionOrder, LAMBDA x : InSet(x, S))

PermissionsOf(attributes) ==
  IF "permissions" \in DOMAIN attributes THEN attributes.permissions ELSE <<>>

LifespanOf(attributes) ==
  IF "lifespan" \in DOMAIN attributes THEN attributes.lifespan ELSE Null

\* mutant: unknown actions are let through
assertTokenPermissionsValidity_Never(attributes) == FALSE

\* assertTokenPermissionsValidity: TRUE when it throws ValidationError
assertTokenPermissionsValidity(attributes) ==
  difference(PermissionsOf(attributes), SetToSeq(validPermissions)) # <<>>

\* mutant: any lifespan is accepted
assertValidLifespan_Never(attributes) == FALSE

\* assertValidLifespan: TRUE when it throws ValidationError
assertValidLifespan(attributes) ==
  /\ ~isNil(LifespanOf(attributes))
  /\ LifespanOf(attributes) \notin TRANSFER_TOKEN_LIFESPANS

\* mutant: the expiration is the lifespan itself, not a point in time
getExpirationFields_NoClock(lifespan) ==
  IF ~(lifespan > 0) /\ ~isNil(lifespan)
    THEN [threw |-> "ValidationError", lifespan |-> Null, expiresAt |-> Null]
    ELSE [threw |-> "none",
          lifespan |-> IF lifespan > 0 THEN lifespan ELSE Null,
          expiresAt |-> IF lifespan > 0 THEN lifespan ELSE Null]

getExpirationFields(lifespan) ==
  IF ~(lifespan > 0) /\ ~isNil(lifespan)
    THEN [threw |-> "ValidationError", lifespan |-> Null, expiresAt |-> Null]
    ELSE [threw |-> "none",
          lifespan |-> IF lifespan > 0 THEN lifespan ELSE Null,
          expiresAt |-> IF lifespan > 0 THEN now + lifespan ELSE Null]

\* ------------------------------------------------------ the two tables
RECURSIVE Replicate(_, _)
Replicate(a, n) == IF n = 0 THEN <<>> ELSE <<a>> \o Replicate(a, n - 1)

RECURSIVE ActionsFrom(_, _, _)
ActionsFrom(table, id, i) ==
  IF i > Len(ActionOrder) THEN <<>>
  ELSE Replicate(ActionOrder[i], table[<<id, ActionOrder[i]>>])
         \o ActionsFrom(table, id, i + 1)

\* entityService.load(uid, token, 'permissions'), mapped to the actions
load(table, id) == ActionsFrom(table, id, 1)

RECURSIVE createPermissions(_, _, _)
createPermissions(table, id, actions) ==
  IF actions = <<>> THEN table
  ELSE createPermissions([table EXCEPT ![<<id, Head(actions)>>] = @ + 1],
                         id, Tail(actions))

RECURSIVE deletePermissions(_, _, _)
deletePermissions(table, id, actions) ==
  IF actions = <<>> THEN table
  ELSE deletePermissions(
         [table EXCEPT ![<<id, Head(actions)>>] = IF @ > 0 THEN @ - 1 ELSE 0],
         id, Tail(actions))

\* the token's rows go with it (ownership cascade of the relation)
cascade(table, id) ==
  [k \in DOMAIN table |-> IF k[1] = id THEN 0 ELSE table[k]]

select(fields, row) == [f \in fields \cap DOMAIN row |-> row[f]]

populate(row, table, id) == row @@ ("permissions" :> Range(load(table, id)))

assign(row, data) ==
  [f \in DOMAIN row |-> IF f \in DOMAIN data THEN data[f] ELSE row[f]]

NewRow(id) ==
  [id |-> id, name |-> "", description |-> "", accessKey |-> "",
   lastUsedAt |-> Null, lifespan |-> Null, expiresAt |-> Null,
   createdAt |-> now]

Respond(status, rows) == result' = [status |-> status, rows |-> rows]

NoWrites == [deleted |-> <<>>, inserted |-> <<>>]

Throw(error) ==
  /\ Respond(error, {})
  /\ writes' = NoWrites
  /\ UNCHANGED <<tokens, permissions, nextId>>

Invoke(op, id, attributes) == call' = [op |-> op, id |-> id, attributes |-> attributes]

\* ---------------------------------------------------------------- Init
Init ==
  /\ tokens = EmptyRec
  /\ permissions = [k \in TokenIds \X Actions |-> 0]
  /\ nextId = 1
  /\ now \in 0..MaxClock
  /\ hasValidTokenSalt \in BOOLEAN
  /\ pending = {}
  /\ call = [op |-> "none", id |-> 0, attributes |-> EmptyRec]
  /\ result = [status |-> "ok", rows |-> {}]
  /\ writes = NoWrites

\* -------------------------------------------------------------- create
createTransaction(attributes, accessKey) ==
  IF ~hasValidTokenSalt THEN Throw("TypeError")
  ELSE
    LET expiration == getExpirationFields(LifespanOf(attributes))
        data == ("expiresAt" :> expiration.expiresAt)
                  @@ ("lifespan" :> expiration.lifespan)
                  @@ ("accessKey" :> hash(accessKey))
                  @@ omit("permissions", attributes)
        transferToken == assign(NewRow(nextId), data)
        actions == uniq(PermissionsOf(attributes))
        table == createPermissions(permissions, nextId, actions)
    IN IF expiration.threw # "none" THEN Throw(expiration.threw)
       ELSE /\ tokens' = (nextId :> transferToken) @@ tokens
            /\ permissions' = table
            /\ nextId' = nextId + 1
            /\ writes' = [deleted |-> <<>>, inserted |-> actions]
            /\ Respond("ok",
                 {("accessKey" :> accessKey)
                    @@ populate(select(SELECT_FIELDS, transferToken), table, nextId)})

\* random: what generateRandomAccessKey returns if it is called
Create(attributes, random) ==
  /\ nextId <= MaxTokens
  /\ Invoke("create", 0, attributes)
  /\ UNCHANGED <<now, hasValidTokenSalt, pending>>
  /\ LET validated == IF hasAccessKey(attributes)
                         THEN validateAccessKey(attributes.accessKey)
                         ELSE [threw |-> "none", value |-> ""]
         stripped == omit("accessKey", attributes)
     IN IF validated.threw # "none" THEN Throw(validated.threw)
        ELSE IF assertTokenPermissionsValidity(stripped) THEN Throw("ValidationError")
        ELSE IF assertValidLifespan(stripped) THEN Throw("ValidationError")
        ELSE createTransaction(stripped,
               IF hasAccessKey(attributes) THEN validated.value ELSE random)

\* -------------------------------------------------------------- update
updateTransaction(id, attributes) ==
  IF id \in DOMAIN tokens
    THEN
      LET updatedToken == assign(tokens[id], omit("permissions", attributes))
          currentPermissions == load(permissions, id)
          newPermissions == uniq(PermissionsOf(attributes))
          actionsToDelete == difference(currentPermissions, newPermissions)
          actionsToAdd == difference(newPermissions, currentPermissions)
          provided == "permissions" \in DOMAIN attributes
          table == IF provided
                     THEN createPermissions(
                            deletePermissions(permissions, id, actionsToDelete),
                            id, actionsToAdd)
                     ELSE permissions
      IN /\ tokens' = [tokens EXCEPT ![id] = updatedToken]
         /\ permissions' = table
         /\ writes' = IF provided
                        THEN [deleted |-> actionsToDelete, inserted |-> actionsToAdd]
                        ELSE NoWrites
         /\ Respond("ok", {populate(select(SELECT_FIELDS, updatedToken), table, id)})
         /\ UNCHANGED nextId
    ELSE
      \* no row matches (the token went away after the lookup): updatedToken
      \* is null and nothing is written; the store then either fails the
      \* transaction (it cannot load the relation of a null entity, or refuses
      \* a row for a missing token) or finds no rows and inserts the new ones
      \E storeFails \in BOOLEAN :
        IF storeFails THEN Throw("TypeError")
        ELSE
          LET provided == "permissions" \in DOMAIN attributes
              actionsToAdd == uniq(PermissionsOf(attributes))
              table == IF provided
                         THEN createPermissions(permissions, id, actionsToAdd)
                         ELSE permissions
          IN /\ permissions' = table
             /\ writes' = [deleted |-> <<>>, inserted |-> actionsToAdd]
             /\ Respond("ok", {"permissions" :> Range(load(table, id))})
             /\ UNCHANGED <<tokens, nextId>>

\* mutant: the payload is validated before the token is looked up
Update_ValidatesFirst(id, attributes) ==
  /\ Invoke("update", id, attributes)
  /\ UNCHANGED <<now, hasValidTokenSalt, pending>>
  /\ IF assertTokenPermissionsValidity(attributes) THEN Throw("ValidationError")
     ELSE IF assertValidLifespan(attributes) THEN Throw("ValidationError")
     ELSE IF id \notin DOMAIN tokens THEN Throw("NotFoundError")
     ELSE updateTransaction(id, attributes)

Update(id, attributes) ==
  /\ Invoke("update", id, attributes)
  /\ UNCHANGED <<now, hasValidTokenSalt, pending>>
  /\ IF id \notin DOMAIN tokens THEN Throw("NotFoundError")
     ELSE IF assertTokenPermissionsValidity(attributes) THEN Throw("ValidationError")
     ELSE IF assertValidLifespan(attributes) THEN Throw("ValidationError")
     ELSE updateTransaction(id, attributes)

\* -------------------------------------------------------------- revoke
Revoke(id) ==
  /\ Invoke("revoke", id, EmptyRec)
  /\ UNCHANGED <<now, hasValidTokenSalt, pending, nextId>>
  /\ writes' = NoWrites
  /\ IF id \in DOMAIN tokens
       THEN /\ tokens' = [k \in DOMAIN tokens \ {id} |-> tokens[k]]
            /\ permissions' = cascade(permissions, id)
            /\ Respond("ok", {populate(select(SELECT_FIELDS, tokens[id]), permissions, id)})
       ELSE /\ Respond("ok", {})
            /\ UNCHANGED <<tokens, permissions>>

\* ---------------------------------------------------------- regenerate
\* mutant: the regenerated token gets a fresh expiration as well
Regenerate_RenewsExpiration(id, accessKey) ==
  /\ Invoke("regenerate", id, EmptyRec)
  /\ UNCHANGED <<now, hasValidTokenSalt, pending>>
  /\ IF ~hasValidTokenSalt THEN Throw("TypeError")
     ELSE IF id \notin DOMAIN tokens THEN Throw("NotFoundError")
     ELSE /\ tokens' = [tokens EXCEPT
               ![id].accessKey = hash(accessKey),
               ![id].expiresAt = getExpirationFields(tokens[id].lifespan).expiresAt]
          /\ writes' = NoWrites
          /\ Respond("ok", {[id |-> id, accessKey |-> accessKey]})
          /\ UNCHANGED <<permissions, nextId>>

Regenerate(id, accessKey) ==
  /\ Invoke("regenerate", id, EmptyRec)
  /\ UNCHANGED <<now, hasValidTokenSalt, pending>>
  \* the new key is hashed (which needs the salt) before the row is looked up
  /\ IF ~hasValidTokenSalt THEN Throw("TypeError")
     ELSE IF id \notin DOMAIN tokens THEN Throw("NotFoundError")
     ELSE /\ tokens' = [tokens EXCEPT ![id].accessKey = hash(accessKey)]
          /\ writes' = NoWrites
          /\ Respond("ok", {[id |-> id, accessKey |-> accessKey]})
          /\ UNCHANGED <<permissions, nextId>>

\* ---------------------------------------------------------------- reads
List ==
  /\ Invoke("list", 0, EmptyRec)
  /\ Respond("ok",
       {populate(select(SELECT_FIELDS, tokens[id]), permissions, id) : id \in DOMAIN tokens})
  /\ writes' = NoWrites
  /\ UNCHANGED <<tokens, permissions, nextId, now, hasValidTokenSalt, pending>>

Matches(whereParams) ==
  {id \in DOMAIN tokens : \A f \in DOMAIN whereParams : tokens[id][f] = whereParams[f]}

GetBy(op, whereParams) ==
  /\ Invoke(op, 0, whereParams)
  /\ writes' = NoWrites
  /\ UNCHANGED <<tokens, permissions, nextId, now, hasValidTokenSalt, pending>>
  /\ IF DOMAIN whereParams = {} \/ Matches(whereParams) = {}
       THEN Respond("ok", {})
       ELSE LET id == CHOOSE i \in Matches(whereParams) :
                        \A j \in Matches(whereParams) : i <= j
            IN Respond("ok", {populate(select(SELECT_FIELDS, tokens[id]), permissions, id)})

Tick ==
  /\ now < MaxClock
  /\ now' = now + 1
  /\ UNCHANGED <<tokens, permissions, nextId, hasValidTokenSalt, pending, call, result, writes>>

WhereParams ==
  {EmptyRec, [accessKey |-> hash("exactly-15-char")]}

Reads ==
  \/ List
  \/ \E whereParams \in WhereParams : GetBy("getBy", whereParams)
  \/ \E id \in TokenIds : GetBy("getById", [id |-> id])
  \/ \E name \in Names : GetBy("getByName", [name |-> name])

\* access keys: supplied, generated, regenerated, overwritten; and the reads
NextKeys ==
  \/ \E attributes \in KeyPayloads, random \in RandomKeys : Create(attributes, random)
  \/ \E id \in TokenIds, attributes \in KeyPayloads : Update(id, attributes)
  \/ \E id \in TokenIds : Revoke(id)
  \/ \E id \in TokenIds, random \in RandomKeys : Regenerate(id, random)
  \/ Reads

SpecKeys == Init /\ [][NextKeys]_vars

\* permission lists
NextPerms ==
  \/ \E attributes \in PermPayloads : Create(attributes, FirstKey)
  \/ \E id \in TokenIds, attributes \in PermPayloads : Update(id, attributes)
  \/ \E id \in TokenIds : Revoke(id)

SpecPerms == Init /\ [][NextPerms]_vars

\* lifespans, as time passes
NextLife ==
  \/ \E attributes \in LifePayloads : Create(attributes, FirstKey)
  \/ \E id \in TokenIds, attributes \in LifePayloads : Update(id, attributes)
  \/ \E id \in TokenIds : Revoke(id)
  \/ \E id \in TokenIds : Regenerate(id, FirstKey)
  \/ Tick

SpecLife == Init /\ [][NextLife]_vars

\* regenerate among created and updated tokens that differ in every column
NextRegen ==
  \/ \E attributes \in RichPayloads, random \in RandomKeys : Create(attributes, random)
  \/ \E id \in TokenIds, random \in RandomKeys : Regenerate(id, random)
  \/ \E id \in TokenIds, attributes \in RichPayloads : Update(id, attributes)
  \/ \E id \in TokenIds : Revoke(id)
  \/ Tick

SpecRegen == Init /\ [][NextRegen]_vars

\* ------------------------------------------------------- two callers
ConcPayloads ==
  {Base @@ p : p \in Opt("permissions", {<<>>, <<"push">>, <<"pull", "push">>, <<"z">>})}

\* update up to its transaction: the lookup and the two assertions
UpdateBegin(id, attributes) ==
  /\ Cardinality(pending) < MaxPending
  /\ UNCHANGED <<now, hasValidTokenSalt>>
  /\ IF id \notin DOMAIN tokens
       THEN Invoke("update", id, attributes) /\ Throw("NotFoundError") /\ UNCHANGED pending
     ELSE IF assertTokenPermissionsValidity(attributes) \/ assertValidLifespan(attributes)
       THEN Invoke("update", id, attributes) /\ Throw("ValidationError") /\ UNCHANGED pending
     ELSE /\ pending' = pending \cup {[id |-> id, attributes |-> attributes]}
          /\ UNCHANGED <<tokens, permissions, nextId, call, result, writes>>

\* update's transaction, run when the store schedules it
UpdateCommit(p) ==
  /\ pending' = pending \ {p}
  /\ Invoke("update", p.id, p.attributes)
  /\ UNCHANGED <<now, hasValidTokenSalt>>
  /\ updateTransaction(p.id, p.attributes)

NextConc ==
  \/ \E attributes \in ConcPayloads : Create(attributes, FirstKey)
  \/ \E id \in TokenIds, attributes \in ConcPayloads : UpdateBegin(id, attributes)
  \/ \E p \in pending : UpdateCommit(p)
  \/ \E id \in TokenIds : Revoke(id)

SpecConc == Init /\ [][NextConc]_vars

\* ------------------------------------------------ what the claims read
Hashes == {hash(k) : k \in RandomKeys \cup SuppliedKeys}

HasUnregisteredAction(attributes) ==
  /\ "permissions" \in DOMAIN attributes
  /\ \E i \in 1..Len(attributes.permissions) :
       attributes.permissions[i] \notin validPermissions

HasDisallowedLifespan(attributes) ==
  /\ "lifespan" \in DOMAIN attributes
  /\ attributes.lifespan # Null
  /\ attributes.lifespan \notin {DAYS_7, DAYS_30, DAYS_90}

SuppliesShortKey(c) ==
  /\ c.op = "create"
  /\ "accessKey" \in DOMAIN c.attributes
  /\ Len(c.attributes.accessKey) < MinAccessKeyLength

StoreUnchanged == tokens' = tokens /\ permissions' = permissions

\* ---------------------------------------------------------------- C1
\* C1: the accessKey persisted for every stored token is the salted hash of
\* a secret, never a plaintext secret.
C1_StoredKeyIsHash ==
  \A id \in DOMAIN tokens : tokens[id].accessKey \in Hashes

\* ---------------------------------------------------------------- C2
\* C2 (as stated): a create or update call with an unregistered action or a
\* disallowed lifespan fails with ValidationError and writes nothing.
C2_AsStated ==
  [][(/\ call'.op \in {"create", "update"}
      /\ (HasUnregisteredAction(call'.attributes) \/ HasDisallowedLifespan(call'.attributes)))
       => (result'.status = "ValidationError" /\ StoreUnchanged)]_vars

\* C2 (amended): such a call fails and writes nothing; the error is
\* ValidationError unless an earlier check fails first: the assertion on a
\* supplied access key shorter than 15 characters in create, the existence
\* check (NotFoundError) in update.
C2_InvalidPayloadWritesNothing ==
  [][(/\ call'.op \in {"create", "update"}
      /\ (HasUnregisteredAction(call'.attributes) \/ HasDisallowedLifespan(call'.attributes)))
       => (/\ StoreUnchanged
           /\ result'.status =
                IF SuppliesShortKey(call') THEN "AssertionError"
                ELSE IF call'.op = "update" /\ call'.id \notin DOMAIN tokens
                  THEN "NotFoundError"
                ELSE "ValidationError")]_vars

C2_Witness ==
  /\ call.op = "update"
  /\ HasUnregisteredAction(call.attributes)
  /\ result.status = "ValidationError"
  /\ tokens # EmptyRec

\* ---------------------------------------------------------------- C3
\* C3 (as stated): update and regenerate on an id that is not stored fail
\* with NotFoundError and leave tokens and permission rows unchanged.
C3_AsStated ==
  [][(call'.op \in {"update", "regenerate"} /\ call'.id \notin DOMAIN tokens)
       => (result'.status = "NotFoundError" /\ StoreUnchanged)]_vars

\* C3 (amended): they fail and leave the tables unchanged; the error is
\* NotFoundError, except that regenerate without a configured token salt
\* fails in hash (TypeError) before it looks the token up.
C3_MissingIdWritesNothing ==
  [][(call'.op \in {"update", "regenerate"} /\ call'.id \notin DOMAIN tokens)
       => (/\ StoreUnchanged
           /\ result'.status =
                IF call'.op = "regenerate" /\ ~hasValidTokenSalt
                  THEN "TypeError" ELSE "NotFoundError")]_vars

C3_Witness ==
  /\ call.op = "regenerate"
  /\ call.id \notin DOMAIN tokens
  /\ result.status = "NotFoundError"
  /\ tokens # EmptyRec

C9_SecretOnlyFromCreateAndRegenerate ==
  /\ call.op \in {"list", "getBy", "getById", "getByName", "update", "revoke"}
       => \A row \in result.rows : "accessKey" \notin DOMAIN row
  /\ (call.op \in {"create", "regenerate"} /\ result.status = "ok")
       => \A row \in result.rows :
            /\ "accessKey" \in DOMAIN row
            /\ row.accessKey \notin Hashes
            /\ tokens[row.id].accessKey = hash(row.accessKey)

C9_Witness ==
  /\ call.op = "update"
  /\ "accessKey" \in DOMAIN call.attributes
  /\ result.status = "ok"
  /\ result.rows # {}

\* ---------------------------------------------------------------- C4
RowsOf(table, id) == {a \in Actions : table[<<id, a>>] > 0}

\* C4: after a successful update with permissions, the token has exactly one
\* row per distinct action of the list; the rows deleted are current minus
\* desired and the rows inserted desired minus current; without permissions
\* in the payload no permission row changes.
C4_UpdateReconciles ==
  [][(call'.op = "update" /\ result'.status = "ok")
       => LET id == call'.id
              current == RowsOf(permissions, id)
              desired == Range(PermissionsOf(call'.attributes))
          IN /\ \A k \in DOMAIN permissions :
                  k[1] # id => permissions'[k] = permissions[k]
             /\ IF "permissions" \in DOMAIN call'.attributes
                  THEN /\ \A a \in Actions :
                            permissions'[<<id, a>>] = IF a \in desired THEN 1 ELSE 0
                       /\ Range(writes'.deleted) = current \ desired
                       /\ Range(writes'.inserted) = desired \ current
                       /\ Len(writes'.deleted) = Cardinality(current \ desired)
                       /\ Len(writes'.inserted) = Cardinality(desired \ current)
                  ELSE /\ permissions' = permissions
                       /\ writes' = NoWrites]_vars

C4_Witness ==
  /\ call.op = "update"
  /\ result.status = "ok"
  /\ "permissions" \in DOMAIN call.attributes
  /\ writes.deleted # <<>>
  /\ writes.inserted # <<>>
  /\ Len(call.attributes.permissions) > Cardinality(Range(call.attributes.permissions))

\* ---------------------------------------------------------------- C5
\* C5: a successful regenerate changes only the stored secret hash of its
\* token: the token's other columns and permission rows, and every other
\* token and its rows, are as before.
C5_RegenerateFrame ==
  [][(call'.op = "regenerate" /\ result'.status = "ok")
       => /\ DOMAIN tokens' = DOMAIN tokens
          /\ permissions' = permissions
          /\ \A id \in DOMAIN tokens :
               IF id = call'.id
                 THEN \A f \in {"id", "name", "description", "lastUsedAt",
                                "lifespan", "expiresAt", "createdAt"} :
                        tokens'[id][f] = tokens[id][f]
                 ELSE tokens'[id] = tokens[id]]_vars

C5_Witness ==
  /\ call.op = "regenerate"
  /\ result.status = "ok"
  /\ Cardinality(DOMAIN tokens) = 2
  /\ tokens[call.id].lifespan = DAYS_7
  /\ tokens[call.id].expiresAt < now + DAYS_7
  /\ RowsOf(permissions, call.id) = {"push"}
  /\ \E row \in result.rows : tokens[call.id].accessKey = hash(row.accessKey)
  /\ \E id \in DOMAIN tokens : tokens[id].name = "b" /\ tokens[id].accessKey # hash(FirstKey)

\* ---------------------------------------------------------------- C6
\* C6 (as stated): every stored token's expiresAt is null when its lifespan
\* is null, and its creation time plus its current lifespan otherwise.
C6_AsStated ==
  \A id \in DOMAIN tokens :
    tokens[id].expiresAt =
      IF tokens[id].lifespan = Null THEN Null
      ELSE tokens[id].createdAt + tokens[id].lifespan

\* C6 (amended): expiresAt is fixed when the token is created, null for a
\* null lifespan and creation time plus that lifespan otherwise, and no later
\* call changes it: an update that changes lifespan leaves it as it was.
C6_ExpirationFixedAtCreation ==
  [][\A id \in DOMAIN tokens' :
       IF id \in DOMAIN tokens
         THEN tokens'[id].expiresAt = tokens[id].expiresAt
         ELSE tokens'[id].expiresAt =
                IF tokens'[id].lifespan = Null THEN Null
                ELSE tokens'[id].createdAt + tokens'[id].lifespan]_vars

C6_Witness ==
  /\ call.op = "update"
  /\ result.status = "ok"
  /\ tokens[call.id].lifespan = Null
  /\ tokens[call.id].createdAt = 0
  /\ tokens[call.id].expiresAt = DAYS_7
  /\ now > 0

\* ---------------------------------------------------------------- C7
\* C7: the permission rows of each stored token carry pairwise distinct,
\* registered actions; create persists one row per distinct action of its
\* list.
C7_DistinctRegisteredActions ==
  /\ \A id \in DOMAIN tokens, a \in Actions :
       /\ permissions[<<id, a>>] <= 1
       /\ permissions[<<id, a>>] = 1 => a \in validPermissions
  /\ (call.op = "create" /\ result.status = "ok")
       => \A row \in result.rows :
            RowsOf(permissions, row.id) = Range(PermissionsOf(call.attributes))

C7_Witness ==
  /\ call.op = "create"
  /\ result.status = "ok"
  /\ "permissions" \in DOMAIN call.attributes
  /\ call.attributes.permissions = <<"push", "push">>
  /\ \E row \in result.rows : permissions[<<row.id, "push">>] = 1

\* --------------------------------------------------------------- C10
\* C10: with update and revoke interleaved, every stored permission row
\* references a token that is stored.
C10_RowsReferenceStoredTokens ==
  \A k \in DOMAIN permissions : permissions[k] > 0 => k[1] \in DOMAIN tokens

====
